---- MODULE Spec2Model ----
(***************************************************************************)
(* IslandsSampler (src/islands_sampling.py): two-stage cluster sampling    *)
(* bookkeeping.  The state is the sampler object's fields plus the two     *)
(* pieces of interpreter state the sampler reads: the module-level         *)
(* generator of `random` and the per-process salt of hash(str).            *)
(*                                                                         *)
(* Python values: None is the empty set and a present optional value x is  *)
(* the singleton {x}; a list is a sequence; a reference to a dict of       *)
(* potential_participants[village] is its 1-based position in that list    *)
(* (the list is append-only and is never reordered).                       *)
(*                                                                         *)
(* Every method is a function from a run to its outcome: the run after    *)
(* the call, the value returned (ret), the exception raised (err, "" when *)
(* none) and, where the method has them, the lines printed and the file   *)
(* written.  The actions apply these functions to the state.              *)
(***************************************************************************)
EXTENDS Integers, Sequences, FiniteSets, TLC

VARIABLES
    house_registry,          \* self.house_registry: village -> set of houses
    selected_houses,         \* self.selected_houses: village -> list of houses
    potential_participants,  \* self.potential_participants: village -> list of dicts
    participants,            \* self.participants: list of dict copies
    random_seed,             \* self.random_seed
    houses_per_village,      \* self.houses_per_village
    rng,                     \* state of the module-level generator of `random`
    hash_salt,               \* the interpreter's salt of hash(str), fixed per process
    twin,                    \* a second run of the program (see SpecTwin)
    plan                     \* the latest call of calculate_sampling_strategy

vars == <<house_registry, selected_houses, potential_participants, participants,
          random_seed, houses_per_village, rng, hash_salt, twin, plan>>

----------------------------------------------------------------------------
(* Bounds of the model and the sets the inputs are drawn from.             *)

MaxCandidates == 2      \* registrations per run
MaxParticipants == 2    \* length of self.participants
MaxTarget == 20         \* largest target_participants asked of the estimator

villages == <<"Vardo", "Colmar", "Arcadia">>
VillageSet == {villages[i] : i \in 1..Len(villages)}

\* The calls of a single run name one village of the sampler and one village
\* it does not know; the two runs of SpecTwin name two known villages.
InputVillages == {"Vardo", "Atlantis"}
Names == {"Ann", "Bob"}
Houses == {1, 2}
RegistrationAges == {{}}
Measurements == {<<{70}, {12}>>}   \* <<age, tug_time>> of a contact
Times == {1}
HashSalts == {0, 1}
HousesPerVillage == {1, 15}
NextCounts == {0, 1, 5}
ResponseRates == {<<65, 100>>, <<1, 2>>, <<1, 1>>}   \* response_rate as <<num, den>>

None == {}
Some(x) == {x}

----------------------------------------------------------------------------
(* Sequence helpers.                                                       *)

Range(s) == {s[i] : i \in DOMAIN s}
Min(a, b) == IF a <= b THEN a ELSE b
Abs(a) == IF a < 0 THEN -a ELSE a

RECURSIVE SetToList(_)
\* list(a_set) of small non-negative ints: CPython iterates them ascending.
SetToList(S) ==
    IF S = {} THEN <<>>
    ELSE LET m == CHOOSE x \in S : \A y \in S : x <= y
         IN <<m>> \o SetToList(S \ {m})

RECURSIVE Filter(_, _)
\* the subsequence of the positions i of s (in order) with keep[i]
Filter(s, keep) ==
    IF s = <<>> THEN <<>>
    ELSE Filter(SubSeq(s, 1, Len(s) - 1), keep)
         \o (IF keep[s[Len(s)]] THEN <<s[Len(s)]>> ELSE <<>>)

Swap(s, i, j) == [s EXCEPT ![i] = s[j], ![j] = s[i]]

----------------------------------------------------------------------------
(* The interpreter: hash(str) and the `random` module.                     *)

\* hash(village): a fixed value per (string, process salt); it differs
\* between processes unless PYTHONHASHSEED is set.
Hash(s, salt) ==
    LET code == CASE s = "Vardo" -> 3 [] s = "Colmar" -> -6
                  [] s = "Arcadia" -> 10 [] OTHER -> 1
    IN code * (salt + 1) + salt

\* random.seed(a) for an int a seeds from abs(a)
Seed(a) == Abs(a) % 31

\* one step of the generator (a small congruential generator stands for the
\* Mersenne Twister: what matters is that the draws are a function of the seed)
RandomStep(x) == (7 * x + 3) % 31

\* random._randbelow(n): <<value, new generator state>>
RandBelow(n, x) == <<RandomStep(x) % n, RandomStep(x)>>

RECURSIVE ShuffleFrom(_, _, _)
\* random.shuffle: for i in reversed(range(1, len(x))): j = randbelow(i + 1);
\* x[i], x[j] = x[j], x[i].  Positions are 1-based here: i runs Len(s)..2.
ShuffleFrom(s, i, x) ==
    IF i < 2 THEN [list |-> s, rng |-> x]
    ELSE LET r == RandBelow(i, x)
         IN ShuffleFrom(Swap(s, i, r[1] + 1), i - 1, r[2])

Shuffle(s, x) == ShuffleFrom(s, Len(s), x)

RECURSIVE SampleFrom(_, _, _, _)
\* random.sample, pool branch: for i in range(k): j = randbelow(n - i);
\* result[i] = pool[j]; pool[j] = pool[n - i - 1].
SampleFrom(pool, n, k, x) ==
    IF k = 0 THEN [list |-> <<>>, rng |-> x]
    ELSE LET r == RandBelow(n, x)
             j == r[1] + 1
             rest == SampleFrom([pool EXCEPT ![j] = pool[n]], n - 1, k - 1, r[2])
         IN [list |-> <<pool[j]>> \o rest.list, rng |-> rest.rng]

RECURSIVE ChoicesFrom(_, _, _)
\* a sample drawn with replacement: the drawn element stays in the pool
ChoicesFrom(pool, k, x) ==
    IF k = 0 THEN [list |-> <<>>, rng |-> x]
    ELSE LET r == RandBelow(Len(pool), x)
             rest == ChoicesFrom(pool, k - 1, r[2])
         IN [list |-> <<pool[r[1] + 1]>> \o rest.list, rng |-> rest.rng]

SampleWithReplacement(population, k, x) == ChoicesFrom(population, k, x)

Sample(population, k, x) == SampleFrom(population, Len(population), k, x)

----------------------------------------------------------------------------
(* A run of the program: the sampler's fields and the interpreter state.   *)

Self ==
    [house_registry |-> house_registry, selected_houses |-> selected_houses,
     potential_participants |-> potential_participants,
     participants |-> participants, random_seed |-> random_seed,
     houses_per_village |-> houses_per_village, rng |-> rng,
     hash_salt |-> hash_salt]

\* IslandsSampler.__init__
NewSampler(seed, k, salt) ==
    [house_registry |-> [v \in VillageSet |-> {}],
     selected_houses |-> [v \in VillageSet |-> <<>>],
     potential_participants |-> [v \in VillageSet |-> <<>>],
     participants |-> <<>>,
     random_seed |-> seed,
     houses_per_village |-> k,
     rng |-> Seed(seed),
     hash_salt |-> salt]

\* The outcome of a call: the run after it, the value returned, the exception
Outcome(S, ret, err) == [S |-> S, ret |-> ret, err |-> err]

----------------------------------------------------------------------------
(* The methods of IslandsSampler, as functions from a run to an outcome.   *)

\* the house is not recorded
HouseNotRegistered(S, village, house_number) == S

add_house_to_registry(S, village, house_number) ==
    IF village \in DOMAIN S.house_registry
    THEN [S EXCEPT !.house_registry[village] = @ \cup {house_number}]
    ELSE S

\* the dict add_potential_participant builds
NewParticipant(village, name, house_number, age) ==
    [village |-> village, name |-> name, house_number |-> house_number,
     age |-> age, contacted |-> FALSE, consented |-> None, tug_time |-> None,
     timestamp |-> None, selected_in_stage1 |-> FALSE,
     selected_in_stage2 |-> FALSE]

add_potential_participant(S, village, name, house_number, age) ==
    LET S1 == add_house_to_registry(S, village, house_number)
    IN IF village \notin DOMAIN S1.potential_participants
       THEN Outcome(S1, None, "KeyError")
       ELSE Outcome([S1 EXCEPT !.potential_participants[village] =
                         Append(@, NewParticipant(village, name, house_number, age))],
                    None, "")

\* houses_to_select = min(self.houses_per_village, len(available_houses))
HousesToSelect(S, available_houses) ==
    Min(S.houses_per_village, Len(available_houses))

\* the seed of Stage 1: self.random_seed + hash(village)
Stage1Seed(S, village) == S.random_seed + Hash(village, S.hash_salt)

\* Stage 2 is not re-seeded: its draws continue from the generator's state
Stage2SeedCarriedOver(S, village) == S.rng

\* the seed of Stage 2: self.random_seed + hash(village) + 100
Stage2Seed(S, village) == S.random_seed + Hash(village, S.hash_salt) + 100

select_houses_for_sampling(S, village) ==
    IF village \notin DOMAIN S.house_registry
    THEN Outcome(S, None, "KeyError")
    ELSE LET available_houses == SetToList(S.house_registry[village])
         IN IF Len(available_houses) = 0
            THEN Outcome(S, <<>>, "")
            ELSE LET drawn == Sample(available_houses,
                                     HousesToSelect(S, available_houses),
                                     Seed(Stage1Seed(S, village)))
                 IN Outcome([S EXCEPT !.selected_houses[village] = drawn.list,
                                      !.rng = drawn.rng],
                            drawn.list, "")

\* the positions of the list whose house is one of the selected houses
Stage1Participants(people, selected_house_set) ==
    Filter([i \in 1..Len(people) |-> i],
           [i \in 1..Len(people) |-> people[i].house_number \in selected_house_set])

RECURSIVE HouseKeys(_, _)
\* the keys of house_groups in insertion order: first appearance of each house
HouseKeys(people, refs) ==
    IF refs = <<>> THEN <<>>
    ELSE LET before == HouseKeys(people, SubSeq(refs, 1, Len(refs) - 1))
             house == people[refs[Len(refs)]].house_number
         IN IF house \in Range(before) THEN before ELSE Append(before, house)

\* house_groups[house]
HouseGroup(people, refs, house) ==
    Filter(refs, [i \in 1..Len(people) |-> people[i].house_number = house])

RECURSIVE Stage2OrderSkippingSingles(_, _, _, _)
\* a house of one is not appended to stage2_participants
Stage2OrderSkippingSingles(people, refs, houses, x) ==
    IF houses = <<>> THEN [list |-> <<>>, rng |-> x]
    ELSE LET group == HouseGroup(people, refs, houses[1])
             done == IF Len(group) = 1 THEN [list |-> <<>>, rng |-> x]
                     ELSE Shuffle(group, x)
             rest == Stage2OrderSkippingSingles(people, refs, Tail(houses), done.rng)
         IN [list |-> done.list \o rest.list, rng |-> rest.rng]

RECURSIVE Stage2Order(_, _, _, _)
\* the loop over house_groups.items(): a house of one is taken as it is, a
\* larger house is shuffled; each is appended to stage2_participants
Stage2Order(people, refs, houses, x) ==
    IF houses = <<>> THEN [list |-> <<>>, rng |-> x]
    ELSE LET group == HouseGroup(people, refs, houses[1])
             done == IF Len(group) = 1 THEN [list |-> group, rng |-> x]
                     ELSE Shuffle(group, x)
             rest == Stage2Order(people, refs, Tail(houses), done.rng)
         IN [list |-> done.list \o rest.list, rng |-> rest.rng]

generate_two_stage_sampling_order(S, village) ==
    IF village \notin DOMAIN S.potential_participants
    THEN Outcome(S, <<>>, "")
    ELSE LET S1 == IF S.selected_houses[village] = <<>>
                   THEN select_houses_for_sampling(S, village).S
                   ELSE S
             people == S1.potential_participants[village]
             stage1 == Stage1Participants(people, Range(S1.selected_houses[village]))
             stage2 == Stage2Order(people, stage1, HouseKeys(people, stage1),
                                   Seed(Stage2Seed(S1, village)))
             final == Shuffle(stage2.list, stage2.rng)
             marked == [i \in 1..Len(people) |->
                          [people[i] EXCEPT
                              !.selected_in_stage1 = @ \/ i \in Range(stage1),
                              !.selected_in_stage2 = @ \/ i \in Range(stage2.list)]]
         IN Outcome([S1 EXCEPT !.potential_participants[village] = marked,
                               !.rng = final.rng],
                    final.list, "")

\* the loop does not break at the first match: the last match is the one kept
LastMatch(people, name) ==
    IF \E i \in 1..Len(people) : people[i].name = name
    THEN CHOOSE i \in 1..Len(people) :
            /\ people[i].name = name
            /\ \A j \in (i + 1)..Len(people) : people[j].name # name
    ELSE 0

\* the position of the first dict of the list with that name, 0 if none
FirstMatch(people, name) ==
    IF \E i \in 1..Len(people) : people[i].name = name
    THEN CHOOSE i \in 1..Len(people) :
            /\ people[i].name = name
            /\ \A j \in 1..(i - 1) : people[j].name # name
    ELSE 0

\* record_contact_attempt appending the candidate's dict itself instead of a
\* copy of it: the finalized records of the candidate follow its later changes
record_contact_attempt_by_reference(S, village, name, consented, age, tug_time, now) ==
    IF village \notin DOMAIN S.potential_participants
    THEN Outcome(S, None, "KeyError")
    ELSE LET people == S.potential_participants[village]
             i == FirstMatch(people, name)
         IN IF i = 0 THEN Outcome(S, None, "")
            ELSE LET touched == [people[i] EXCEPT !.contacted = TRUE,
                                                  !.consented = Some(consented),
                                                  !.timestamp = Some(now)]
                     person == IF consented
                               THEN [touched EXCEPT !.age = age, !.tug_time = tug_time]
                               ELSE touched
                     aliased == [k \in 1..Len(S.participants) |->
                                    IF S.participants[k] = people[i]
                                    THEN person ELSE S.participants[k]]
                 IN Outcome([S EXCEPT !.potential_participants[village][i] = person,
                                      !.participants =
                                          IF consented THEN Append(aliased, person)
                                          ELSE aliased],
                            None, "")

record_contact_attempt(S, village, name, consented, age, tug_time, now) ==
    IF village \notin DOMAIN S.potential_participants
    THEN Outcome(S, None, "KeyError")
    ELSE LET people == S.potential_participants[village]
             i == FirstMatch(people, name)
         IN IF i = 0 THEN Outcome(S, None, "")
            ELSE LET touched == [people[i] EXCEPT !.contacted = TRUE,
                                                  !.consented = Some(consented),
                                                  !.timestamp = Some(now)]
                     person == IF consented
                               THEN [touched EXCEPT !.age = age, !.tug_time = tug_time]
                               ELSE touched
                 IN Outcome([S EXCEPT !.potential_participants[village][i] = person,
                                      !.participants =
                                          IF consented THEN Append(@, person) ELSE @],
                            None, "")

\* len([p for p in a_list if ...]): keep[i] tells whether entry i counts
Count(s, keep) == Cardinality({i \in 1..Len(s) : keep[i]})

\* what get_sampling_status reports for one village
VillageStatus(S, village) ==
    LET people == S.potential_participants[village]
    IN [completed |->
            Count(S.participants, [i \in 1..Len(S.participants) |->
                                      S.participants[i].village = village]),
        contacted |->
            Count(people, [i \in 1..Len(people) |-> people[i].contacted]),
        stage1_houses |-> Len(S.selected_houses[village]),
        total_houses |-> Cardinality(S.house_registry[village]),
        stage2_eligible |->
            Count(people, [i \in 1..Len(people) |-> people[i].selected_in_stage1])]

get_sampling_status(S) ==
    [S |-> S, ret |-> None, err |-> "",
     printed |-> [v \in VillageSet |-> VillageStatus(S, v)]]

\* export_data: the rows written (None when nothing is written) and the
\* per-village counts printed
export_data(S) ==
    IF S.participants = <<>>
    THEN [S |-> S, ret |-> None, err |-> "", file |-> None,
          printed |-> "No data to export yet!"]
    ELSE [S |-> S, ret |-> None, err |-> "", file |-> Some(S.participants),
          printed |-> [v \in VillageSet |->
                          Count(S.participants, [i \in 1..Len(S.participants) |->
                                                    S.participants[i].village = v])]]

\* a_list[:n + 1]
SliceOneMore(s, n) == SubSeq(s, 1, Min(n + 1, Len(s)))

\* a_list[:n] for n >= 0
Slice(s, n) == SubSeq(s, 1, Min(n, Len(s)))

get_next_participants(S, village, n) ==
    LET order == generate_two_stage_sampling_order(S, village)
        people == IF village \in DOMAIN order.S.potential_participants
                  THEN order.S.potential_participants[village] ELSE <<>>
        pending == Filter(order.ret, [i \in 1..Len(people) |-> ~people[i].contacted])
    IN [S |-> order.S, ret |-> Slice(pending, n), err |-> "", order |-> order.ret]

----------------------------------------------------------------------------
(* The sample-size estimator.  A float is the exact fraction <<p, q>> it   *)
(* stands for.                                                             *)

VILLAGE_DATA ==
    [Vardo |-> [houses |-> 762, population |-> 1790],
     Colmar |-> [houses |-> 2299, population |-> 5650],
     Arcadia |-> [houses |-> 2101, population |-> 5308]]

\* int(p / q) for p >= 0 and q > 0: the fraction is truncated
IntPart(p, q) == p \div q

\* the fixed buffer of houses added to the estimate
Buffer == 2

calculate_sampling_strategy(village, target_participants, response_rate) ==
    LET total_houses == VILLAGE_DATA[village].houses
        total_population == VILLAGE_DATA[village].population
        avg_adults_per_house == <<total_population, total_houses>>
        participants_needed ==
            <<target_participants * response_rate[2], response_rate[1]>>
        houses_needed ==
            IntPart(participants_needed[1] * avg_adults_per_house[2],
                    participants_needed[2] * avg_adults_per_house[1]) + Buffer
    IN <<houses_needed, avg_adults_per_house>>

\* no call of the estimator yet
NoPlan == [village |-> "", target_participants |-> 0, response_rate |-> <<1, 1>>,
           ret |-> <<0, <<0, 1>>>>]

----------------------------------------------------------------------------
(* The state machine of one run.                                           *)

\* the sampler's fields and the generator become those of run S
Install(S) ==
    /\ house_registry' = S.house_registry
    /\ selected_houses' = S.selected_houses
    /\ potential_participants' = S.potential_participants
    /\ participants' = S.participants
    /\ rng' = S.rng
    /\ UNCHANGED <<random_seed, houses_per_village, hash_salt>>

\* the number of dicts in all the lists of potential_participants
Registered(S) ==
    Cardinality({<<v, i>> \in VillageSet \X (1..MaxCandidates) :
                    i <= Len(S.potential_participants[v])})

DefaultSeed == 42

Init ==
    /\ random_seed = DefaultSeed
    /\ houses_per_village \in HousesPerVillage
    /\ hash_salt \in HashSalts
    /\ house_registry = NewSampler(random_seed, houses_per_village, hash_salt).house_registry
    /\ selected_houses = NewSampler(random_seed, houses_per_village, hash_salt).selected_houses
    /\ potential_participants =
           NewSampler(random_seed, houses_per_village, hash_salt).potential_participants
    /\ participants = NewSampler(random_seed, houses_per_village, hash_salt).participants
    /\ rng = NewSampler(random_seed, houses_per_village, hash_salt).rng
    /\ twin = NewSampler(random_seed, houses_per_village, hash_salt)
    /\ plan = NoPlan

AddPotentialParticipant ==
    \E village \in InputVillages, name \in Names, house_number \in Houses,
       age \in RegistrationAges :
        LET out == add_potential_participant(Self, village, name, house_number, age)
        IN /\ Registered(Self) < MaxCandidates
           /\ Install(out.S)
           /\ UNCHANGED <<twin, plan>>

SelectHousesForSampling ==
    \E village \in InputVillages :
        LET out == select_houses_for_sampling(Self, village)
        IN /\ Install(out.S)
           /\ UNCHANGED <<twin, plan>>

GenerateTwoStageSamplingOrder ==
    \E village \in InputVillages :
        LET out == generate_two_stage_sampling_order(Self, village)
        IN /\ Install(out.S)
           /\ UNCHANGED <<twin, plan>>

RecordContactAttempt ==
    \E village \in InputVillages, name \in Names, consented \in BOOLEAN,
       m \in Measurements, now \in Times :
        LET out == record_contact_attempt(Self, village, name, consented,
                                          m[1], m[2], now)
        IN /\ Len(out.S.participants) <= MaxParticipants
           /\ Install(out.S)
           /\ UNCHANGED <<twin, plan>>

GetSamplingStatus ==
    LET out == get_sampling_status(Self)
    IN /\ Install(out.S)
       /\ UNCHANGED <<twin, plan>>

ExportData ==
    LET out == export_data(Self)
    IN /\ Install(out.S)
       /\ UNCHANGED <<twin, plan>>

GetNextParticipants ==
    \E village \in InputVillages, n \in NextCounts :
        LET out == get_next_participants(Self, village, n)
        IN /\ Install(out.S)
           /\ UNCHANGED <<twin, plan>>

Next ==
    \/ AddPotentialParticipant
    \/ SelectHousesForSampling
    \/ GenerateTwoStageSamplingOrder
    \/ RecordContactAttempt
    \/ GetSamplingStatus
    \/ ExportData
    \/ GetNextParticipants

Spec == Init /\ [][Next]_vars

----------------------------------------------------------------------------
(* Two runs of the program fed the same registrations (for determinism).   *)

TwinVillages == {"Vardo", "Colmar"}

InitTwin ==
    /\ random_seed = DefaultSeed
    /\ houses_per_village \in HousesPerVillage
    /\ hash_salt \in HashSalts
    /\ house_registry = NewSampler(random_seed, houses_per_village, hash_salt).house_registry
    /\ selected_houses = NewSampler(random_seed, houses_per_village, hash_salt).selected_houses
    /\ potential_participants =
           NewSampler(random_seed, houses_per_village, hash_salt).potential_participants
    /\ participants = NewSampler(random_seed, houses_per_village, hash_salt).participants
    /\ rng = NewSampler(random_seed, houses_per_village, hash_salt).rng
    /\ \E salt \in HashSalts : twin = NewSampler(random_seed, houses_per_village, salt)
    /\ plan = NoPlan

\* both runs make the same add_potential_participant call
TwinAddPotentialParticipant ==
    \E village \in TwinVillages, name \in Names, house_number \in Houses,
       age \in RegistrationAges :
        /\ Registered(Self) < MaxCandidates
        /\ Install(add_potential_participant(Self, village, name, house_number, age).S)
        /\ twin' = add_potential_participant(twin, village, name, house_number, age).S
        /\ UNCHANGED plan

\* a stochastic call of the first run alone
FirstRunDraws ==
    \E village \in TwinVillages :
        /\ \/ Install(select_houses_for_sampling(Self, village).S)
           \/ Install(generate_two_stage_sampling_order(Self, village).S)
        /\ UNCHANGED <<twin, plan>>

\* a stochastic call of the second run alone
SecondRunDraws ==
    \E village \in TwinVillages :
        /\ \/ twin' = select_houses_for_sampling(twin, village).S
           \/ twin' = generate_two_stage_sampling_order(twin, village).S
        /\ UNCHANGED <<house_registry, selected_houses, potential_participants,
                       participants, random_seed, houses_per_village, rng, hash_salt,
                       plan>>

NextTwin ==
    \/ TwinAddPotentialParticipant
    \/ FirstRunDraws
    \/ SecondRunDraws

SpecTwin == InitTwin /\ [][NextTwin]_vars

----------------------------------------------------------------------------
(* Properties.                                                             *)

NoDuplicates(s) == \A i, j \in 1..Len(s) : s[i] = s[j] => i = j

\* C1: select_houses_for_sampling stores a duplicate-free list of
\* min(houses_per_village, number of registered houses) houses of the
\* village's registry, and the stored selection of every village is a subset
\* of its registry in every reachable state.
C1_SelectedHouses ==
    \A g \in VillageSet :
        /\ Range(selected_houses[g]) \subseteq house_registry[g]
        /\ LET out == select_houses_for_sampling(Self, g)
               stored == out.S.selected_houses[g]
           IN /\ Range(stored) \subseteq out.S.house_registry[g]
              /\ NoDuplicates(stored)
              /\ Len(stored) = Min(houses_per_village, Cardinality(house_registry[g]))
              /\ out.ret = stored
              /\ out.err = ""

\* a selection of one house out of two was stored, and a candidate of the
\* house left out is registered
C1_Witness ==
    \E g \in VillageSet :
        /\ Cardinality(house_registry[g]) = 2
        /\ Len(selected_houses[g]) = 1
        /\ houses_per_village = 1
        /\ \E i \in 1..Len(potential_participants[g]) :
              potential_participants[g][i].house_number \notin Range(selected_houses[g])


\* C2: two runs with the same seed and houses_per_village that received the
\* same add_potential_participant calls return the same selection and the
\* same contact order for every village, whatever stochastic calls each run
\* made before.
C2_Determinism ==
    \A g \in VillageSet :
        /\ select_houses_for_sampling(Self, g).ret
               = select_houses_for_sampling(twin, g).ret
        /\ generate_two_stage_sampling_order(Self, g).ret
               = generate_two_stage_sampling_order(twin, g).ret

\* C3: recording an outcome for a name some candidate of the village carries
\* marks the first candidate of that name contacted, appends exactly one
\* participant when consent was given and none otherwise, and changes no
\* other candidate.
C3_RecordOutcome ==
    \A g \in VillageSet, name \in Names, consented \in BOOLEAN,
       m \in Measurements, now \in Times :
        LET people == potential_participants[g]
            matches == {i \in 1..Len(people) : people[i].name = name}
        IN matches # {} =>
           LET first == CHOOSE i \in matches : \A j \in matches : i <= j
               out == record_contact_attempt(Self, g, name, consented, m[1], m[2], now)
               after == out.S.potential_participants
           IN /\ out.err = ""
              /\ Len(out.S.participants)
                     = Len(participants) + (IF consented THEN 1 ELSE 0)
              /\ SubSeq(out.S.participants, 1, Len(participants)) = participants
              /\ Len(after[g]) = Len(people)
              /\ after[g][first].contacted
              /\ \A j \in 1..Len(people) : j # first => after[g][j] = people[j]
              /\ \A v \in VillageSet : v # g => after[v] = potential_participants[v]

\* two candidates of a village share a name; the first has been recorded as
\* consenting and is a participant, the second is untouched
C3_Witness ==
    \E g \in VillageSet :
        LET people == potential_participants[g]
        IN \E i, j \in 1..Len(people) :
              /\ i < j
              /\ people[i].name = people[j].name
              /\ people[i].contacted
              /\ people[i].consented = Some(TRUE)
              /\ ~people[j].contacted
              /\ Len(participants) = 1

\* C4: a candidate not contacted has consented, tug_time and timestamp
\* unset, and tug_time is set only on a candidate whose consented is true.
C4_CandidateInvariant ==
    \A g \in VillageSet :
        \A i \in 1..Len(potential_participants[g]) :
            LET p == potential_participants[g][i]
            IN /\ ~p.contacted =>
                     p.consented = None /\ p.tug_time = None /\ p.timestamp = None
               /\ p.tug_time # None => p.consented = Some(TRUE)

\* C5: every candidate is the source of at most one record of participants.
C5_AtMostOneParticipant ==
    \A g \in VillageSet :
        LET people == potential_participants[g]
        IN \A i \in 1..Len(people) :
              (\A j \in 1..(i - 1) : people[j].name # people[i].name) =>
                  Cardinality({k \in 1..Len(participants) :
                                  /\ participants[k].village = g
                                  /\ participants[k].name = people[i].name}) <= 1

\* C6: recording an outcome for a name no candidate of the village carries
\* raises an error and leaves the state as it was.
C6_UnknownNameFails ==
    \A g \in VillageSet, name \in Names, consented \in BOOLEAN,
       m \in Measurements, now \in Times :
        LET out == record_contact_attempt(Self, g, name, consented, m[1], m[2], now)
        IN (\A i \in 1..Len(potential_participants[g]) :
               potential_participants[g][i].name # name) =>
              /\ out.err # ""
              /\ out.S = Self

\* C7: registering under an unknown village raises an error and changes
\* nothing; under a known village it adds the house to that village's
\* registry and appends one candidate with contacted false, consented,
\* tug_time and timestamp unset and both stage flags false, leaving the
\* selections, the other villages and the participants as they were.
C7_Register ==
    \A village \in InputVillages, name \in Names, house_number \in Houses,
       age \in RegistrationAges :
        LET out == add_potential_participant(Self, village, name, house_number, age)
        IN IF village \notin VillageSet
           THEN out.err = "KeyError" /\ out.S = Self
           ELSE /\ out.err = ""
                /\ out.S.house_registry[village]
                       = house_registry[village] \cup {house_number}
                /\ out.S.potential_participants[village]
                       = Append(potential_participants[village],
                                [village |-> village, name |-> name,
                                 house_number |-> house_number, age |-> age,
                                 contacted |-> FALSE, consented |-> None,
                                 tug_time |-> None, timestamp |-> None,
                                 selected_in_stage1 |-> FALSE,
                                 selected_in_stage2 |-> FALSE])
                /\ \A v \in VillageSet : v # village =>
                      /\ out.S.house_registry[v] = house_registry[v]
                      /\ out.S.potential_participants[v] = potential_participants[v]
                /\ out.S.selected_houses = selected_houses
                /\ out.S.participants = participants

\* two candidates were registered in one house of a village after the
\* village's selection and a participant were stored
C7_Witness ==
    \E g \in VillageSet :
        /\ Len(potential_participants[g]) = 2
        /\ Cardinality(house_registry[g]) = 1
        /\ selected_houses[g] # <<>>
        /\ participants # <<>>
        /\ ~potential_participants[g][2].contacted
        /\ ~potential_participants[g][2].selected_in_stage1

\* the candidates of the village living in its selected houses after the call
Eligible(out, g) ==
    {i \in 1..Len(out.S.potential_participants[g]) :
        out.S.potential_participants[g][i].house_number
            \in Range(out.S.selected_houses[g])}

\* the contact order is a permutation of the candidates in selected houses,
\* all of them flagged by both stages
OrderIsPermutation(out, g) ==
    /\ Range(out.ret) = Eligible(out, g)
    /\ NoDuplicates(out.ret)
    /\ \A i \in Eligible(out, g) :
          /\ out.S.potential_participants[g][i].selected_in_stage1
          /\ out.S.potential_participants[g][i].selected_in_stage2

\* C8 as claimed: the contact order is a permutation of the candidates in
\* selected houses, all flagged by both stages, and whenever
\* houses_per_village is at least the number of registered houses it
\* contains every registered candidate exactly once.
C8_ContactOrderAll ==
    \A g \in VillageSet :
        LET out == generate_two_stage_sampling_order(Self, g)
        IN /\ OrderIsPermutation(out, g)
           /\ houses_per_village >= Cardinality(house_registry[g]) =>
                 Range(out.ret) = 1..Len(potential_participants[g])

\* C8 amended: the same, with every registered candidate contained when
\* moreover no selection is stored yet or the stored selection covers the
\* registry.
C8_ContactOrder ==
    \A g \in VillageSet :
        LET out == generate_two_stage_sampling_order(Self, g)
        IN /\ OrderIsPermutation(out, g)
           /\ ( /\ houses_per_village >= Cardinality(house_registry[g])
                /\ \/ selected_houses[g] = <<>>
                   \/ Range(selected_houses[g]) = house_registry[g] ) =>
                 Range(out.ret) = 1..Len(potential_participants[g])

\* the contact order of two candidates in two selected houses was built and
\* is not the registration order
C8_Witness ==
    \E g \in VillageSet :
        /\ Len(potential_participants[g]) = 2
        /\ Range(selected_houses[g]) = house_registry[g]
        /\ Cardinality(house_registry[g]) = 2
        /\ \A i \in 1..2 : potential_participants[g][i].selected_in_stage2
        /\ generate_two_stage_sampling_order(Self, g).ret = <<2, 1>>

\* C9: get_next_participants returns the first min(n, r) entries of the
\* contact order without its contacted candidates, r being the number of
\* uncontacted candidates in selected houses: nothing for n = 0, all r of
\* them for n >= r, none contacted or outside the selected houses, no error.
C9_NextToContact ==
    \A g \in VillageSet, n \in NextCounts :
        LET out == get_next_participants(Self, g, n)
            people == out.S.potential_participants[g]
            remaining == {i \in Eligible(out, g) : ~people[i].contacted}
            order == generate_two_stage_sampling_order(Self, g).ret
            pending == Filter(order, [i \in 1..Len(people) |-> i \in remaining])
        IN /\ out.err = ""
           /\ Len(out.ret) = Min(n, Cardinality(remaining))
           /\ out.ret = SubSeq(pending, 1, Len(out.ret))
           /\ Range(out.ret) \subseteq remaining
           /\ NoDuplicates(out.ret)
           /\ n = 0 => out.ret = <<>>
           /\ n >= Cardinality(remaining) => Range(out.ret) = remaining

\* the contact order was built for two candidates in selected houses, one of
\* them since contacted: asking for five returns the other one alone
C9_Witness ==
    \E g \in VillageSet :
        LET people == potential_participants[g]
        IN /\ Len(people) = 2
           /\ \A i \in 1..2 : people[i].selected_in_stage2
           /\ \E i \in 1..2 : people[i].contacted
           /\ \E i \in 1..2 : ~people[i].contacted
           /\ Len(get_next_participants(Self, g, 5).ret) = 1

\* C10: export_data with no participant raises an error, writes no file and
\* leaves the state as it was; with participants it writes one row per
\* participant and returns per-village counts that sum to their number.
C10_Export ==
    LET out == export_data(Self)
    IN /\ out.S = Self
       /\ participants = <<>> => out.err # "" /\ out.file = None
       /\ participants # <<>> =>
             /\ out.err = ""
             /\ out.file = Some(participants)
             /\ out.ret # None

----------------------------------------------------------------------------
(* Calls of the estimator.                                                 *)

CalculateSamplingStrategy ==
    \E village \in VillageSet, target_participants \in 1..MaxTarget,
       response_rate \in ResponseRates :
        /\ plan' = [village |-> village,
                    target_participants |-> target_participants,
                    response_rate |-> response_rate,
                    ret |-> calculate_sampling_strategy(village, target_participants,
                                                        response_rate)]
        /\ UNCHANGED <<house_registry, selected_houses, potential_participants,
                       participants, random_seed, houses_per_village, rng, hash_salt,
                       twin>>

NextEstimate == CalculateSamplingStrategy

SpecEstimate == Init /\ [][NextEstimate]_vars

\* the least integer not below p / q, for p >= 0 and q > 0
Ceiling(p, q) == (p + q - 1) \div q

\* C11: the estimator returns housesNeeded = ceil(target * houses /
\* (r * population)) + 2 for every valid input.
C11_HousesNeeded ==
    plan # NoPlan =>
        plan.ret[1]
            = Ceiling(plan.target_participants * plan.response_rate[2]
                          * VILLAGE_DATA[plan.village].houses,
                      plan.response_rate[1] * VILLAGE_DATA[plan.village].population)
              + 2

\* C12: building the contact order twice in a row returns the same
\* sequence both times, and the second call leaves the state as the first
\* call left it.
C12_OrderIdempotent ==
    \A g \in VillageSet :
        LET once == generate_two_stage_sampling_order(Self, g)
            twice == generate_two_stage_sampling_order(once.S, g)
        IN /\ twice.ret = once.ret
           /\ twice.S = once.S

\* two candidates of two houses wait for their first contact order: the first
\* call selects the houses, sets the stage flags and returns an order that is
\* not the registration order, and the second call returns it again
C12_Witness ==
    \E g \in VillageSet :
        LET people == potential_participants[g]
            once == generate_two_stage_sampling_order(Self, g)
            twice == generate_two_stage_sampling_order(once.S, g)
        IN /\ Len(people) = 2
           /\ people[1].house_number # people[2].house_number
           /\ \A i \in 1..2 : ~people[i].selected_in_stage2
           /\ once.S # Self
           /\ once.ret = <<2, 1>>
           /\ twice.ret = <<2, 1>>

\* C13: no step removes a finalized participant or changes a field of one:
\* the finalized list of before the step is a prefix of the list after it.
C13_ParticipantsFrozen ==
    [][/\ Len(participants') >= Len(participants)
       /\ SubSeq(participants', 1, Len(participants)) = participants]_vars

\* a finalized participant whose source candidate has since declined and has
\* since been flagged for both stages: the record still shows the consent
\* and the flags of the moment it was appended
C13_Witness ==
    \E k \in 1..Len(participants) :
        LET record == participants[k]
            people == potential_participants[record.village]
            i == FirstMatch(people, record.name)
        IN /\ i # 0
           /\ record.consented = Some(TRUE)
           /\ people[i].consented = Some(FALSE)
           /\ ~record.selected_in_stage2
           /\ people[i].selected_in_stage2

\* C14: in every state a candidate flagged for stage 1 lives in a currently
\* selected house of its village, a candidate flagged for stage 2 is flagged
\* for stage 1, and the eligible count of the status report is the number of
\* candidates living in currently selected houses.
C14_FlagsFollowSelection ==
    \A g \in VillageSet :
        LET people == potential_participants[g]
            selected == Range(selected_houses[g])
        IN /\ \A i \in 1..Len(people) :
                /\ people[i].selected_in_stage1 => people[i].house_number \in selected
                /\ people[i].selected_in_stage2 => people[i].selected_in_stage1
           /\ VillageStatus(Self, g).stage2_eligible
                = Count(people, [i \in 1..Len(people) |->
                                    people[i].house_number \in selected])

\* C15: in every state the contacted count of the status report is at most
\* its eligible count, for every village.
C15_ContactedAtMostEligible ==
    \A g \in VillageSet :
        VillageStatus(Self, g).contacted <= VillageStatus(Self, g).stage2_eligible

====
